---------------------------- MODULE Spec2Model ----------------------------
(***************************************************************************)
(* A model of src/src/app.js: class App, which downloads the most recent   *)
(* daily csv snapshot (downloadCsvFile), reads its rows (setRowsData),     *)
(* builds one Country object per country name plus "Worldwide"             *)
(* (createCountryObjects), adds the rows' case counts to them              *)
(* (populateCountryObjects) and stores them (saveDataToDb).                *)
(*                                                                         *)
(* Representation.  A text (a csv field) is a tuple of one-character       *)
(* strings; the JavaScript value undefined is the tuple <<"undefined">>.   *)
(* A day is a day number counted from 2019-01-01 (day 0); the file name    *)
(* MM-DD-YYYY.csv is the tuple <<MM, DD, YYYY>>; '' is <<>>.  A JavaScript *)
(* object used as a map (countryObjects) is the sequence of its values in  *)
(* key insertion order, which is the order Object.values returns.          *)
(***************************************************************************)
EXTENDS Integers, Sequences, FiniteSets, TLC

VARIABLES
    pc,              \* position of the thread of control in init
    run,             \* number of the current call of init on this App
    clock,           \* the day the system clock shows
    ticks,           \* midnights passed since construction
    dataDir,         \* whether the data directory exists
    staging,         \* files of the data directory: file name -> state
    i,               \* loop counter of downloadCsvFile
    csvFileName,     \* this.csvFileName
    dlResult,        \* how the last downloadCsvFile ended
    probes,          \* this run's fetch attempts, in order (history)
    failedNames,     \* file names of this run's failed attempts (history)
    csvRows,         \* this.csvRows
    countryObjects,  \* this.countryObjects
    totalDeaths,     \* this.totalDeaths
    totalActive,     \* this.totalActive
    totalRecovered,  \* this.totalRecovered
    totalConfirmed,  \* this.totalConfirmed
    rowIdx,          \* position of populateCountryObjects' forEach
    lastAdded,       \* the four counts the last forEach step added (history)
    values,          \* saveDataToDb: const values
    insertIdx,       \* position of saveDataToDb's for loop
    dbOpen,          \* whether the database connection is open
    dbStore,         \* the records of the collection, in insertion order
    dbLog,           \* this run's database operations, in order (history)
    error,           \* the error that ended init, "" if none
    argField,        \* getCaseCount called alone: the field's raw text
    retValue         \* getCaseCount called alone: the value returned

vars == <<pc, run, clock, ticks, dataDir, staging, i, csvFileName, dlResult,
          probes, failedNames, csvRows, countryObjects, totalDeaths,
          totalActive, totalRecovered, totalConfirmed, rowIdx, lastAdded,
          values, insertIdx, dbOpen, dbStore, dbLog, error,
          argField, retValue>>

(***************************************************************************)
(* Bounds of the model.                                                    *)
(***************************************************************************)
MaxLen == 3
MaxRows == 3
MaxPipeRows == 2
MaxTicks == 1
MaxRuns == 2

(***************************************************************************)
(* Program constants.                                                      *)
(***************************************************************************)
tries == 90

WORLDWIDE == "Worldwide"
COL_COUNTRY == "Country_Region"
COL_DEATHS == "Deaths"
COL_CONFIRMED == "Confirmed"
COL_ACTIVE == "Active"
COL_RECOVERED == "Recovered"
COL_LAST_UPDATE == "Last_Update"

undefined == <<"undefined">>

(***************************************************************************)
(* Moment().subtract(i, 'days').format('MM-DD-YYYY')                       *)
(***************************************************************************)
IsLeap(y) == (y % 4 = 0 /\ y % 100 # 0) \/ y % 400 = 0

DaysInMonth(y, m) ==
    IF m = 2 THEN (IF IsLeap(y) THEN 29 ELSE 28)
    ELSE IF m \in {4, 6, 9, 11} THEN 30 ELSE 31

RECURSIVE CivilFrom(_, _, _)
CivilFrom(n, y, m) ==
    IF n >= DaysInMonth(y, m)
    THEN IF m = 12 THEN CivilFrom(n - DaysInMonth(y, m), y + 1, 1)
                   ELSE CivilFrom(n - DaysInMonth(y, m), y, m + 1)
    ELSE <<m, n + 1, y>>

\* the dates of the days of 2019 and 2020
Calendar == [day \in 0..730 |-> CivilFrom(day, 2019, 1)]

\* format('MM-DD-YYYY') of a day number
FormatDate(day) ==
    IF day \in DOMAIN Calendar THEN Calendar[day] ELSE CivilFrom(day, 2019, 1)

\* Moment().subtract(k, 'days'), as a day number
SubtractDays(now, k) == now - k

(***************************************************************************)
(* parseInt(string) with no radix, as ECMAScript defines it: ToString,     *)
(* leading white space trimmed, an optional sign, a 0x/0X prefix selecting *)
(* radix 16, then the longest prefix of digits; NaN when that is empty.    *)
(* A number is [nan |-> FALSE, val |-> n]; NaN is [nan |-> TRUE, ...].     *)
(***************************************************************************)
WhiteSpace == {" "}

DigitVal(c) ==
    CASE c = "0" -> 0 [] c = "1" -> 1 [] c = "2" -> 2 [] c = "3" -> 3
      [] c = "4" -> 4 [] c = "5" -> 5 [] c = "6" -> 6 [] c = "7" -> 7
      [] c = "8" -> 8 [] c = "9" -> 9
      [] c \in {"a", "A"} -> 10 [] c \in {"b", "B"} -> 11
      [] c \in {"c", "C"} -> 12 [] c \in {"d", "D"} -> 13
      [] c \in {"e", "E"} -> 14 [] c \in {"f", "F"} -> 15
      [] OTHER -> 99

IsDigit(c, R) == DigitVal(c) < R

JsToString(v) ==
    IF v = undefined THEN <<"u", "n", "d", "e", "f", "i", "n", "e", "d">> ELSE v

RECURSIVE TrimLeft(_)
TrimLeft(s) ==
    IF s # <<>> /\ Head(s) \in WhiteSpace THEN TrimLeft(Tail(s)) ELSE s

RECURSIVE DigitsPrefix(_, _)
DigitsPrefix(s, R) ==
    IF s # <<>> /\ IsDigit(Head(s), R)
    THEN <<Head(s)>> \o DigitsPrefix(Tail(s), R)
    ELSE <<>>

RECURSIVE MathInt(_, _, _)
MathInt(z, R, acc) ==
    IF z = <<>> THEN acc ELSE MathInt(Tail(z), R, acc * R + DigitVal(Head(z)))

NaN == [nan |-> TRUE, val |-> 0]

Num(n) == [nan |-> FALSE, val |-> n]

parseInt(string) ==
    LET S == TrimLeft(JsToString(string))
        sign == IF S # <<>> /\ Head(S) = "-" THEN -1 ELSE 1
        S1 == IF S # <<>> /\ Head(S) \in {"+", "-"} THEN Tail(S) ELSE S
        hex == Len(S1) >= 2 /\ S1[1] = "0" /\ S1[2] \in {"x", "X"}
        R == IF hex THEN 16 ELSE 10
        S2 == IF hex THEN Tail(Tail(S1)) ELSE S1
        Z == DigitsPrefix(S2, R)
    IN  IF Z = <<>> THEN NaN ELSE Num(sign * MathInt(Z, R, 0))

isNaN(v) == v.nan

\* Math.abs
Abs(n) == IF n < 0 THEN -n ELSE n

\* row[columnName]: undefined when the row has no such column
Lookup(row, columnName) ==
    IF columnName \in DOMAIN row THEN row[columnName] ELSE undefined

\* a plausible bug: the sign of a negative count is kept
getCaseCountKeepsSign(row, columnName) ==
    LET caseValue == parseInt(Lookup(row, columnName))
    IN  IF isNaN(caseValue) THEN 0 ELSE caseValue.val

\* a plausible bug: Number(), which rejects trailing text, instead of parseInt
getCaseCountWholeField(row, columnName) ==
    LET text == JsToString(Lookup(row, columnName))
        caseValue == parseInt(text)
        whole == text # <<>> /\ \A k \in 1..Len(text) :
                    IsDigit(text[k], 10) \/ (k = 1 /\ text[k] \in {"+", "-"})
    IN  IF isNaN(caseValue) \/ ~whole THEN 0 ELSE Abs(caseValue.val)

getCaseCount(row, columnName) ==
    LET parsed == parseInt(Lookup(row, columnName))
        caseValue == IF isNaN(parsed) THEN 0 ELSE parsed.val
    IN  IF caseValue < 0 THEN Abs(caseValue) ELSE caseValue

(***************************************************************************)
(* class Country (country.js): a name, four counters that start at 0 and   *)
(* are only ever incremented, and the source's last update time.           *)
(***************************************************************************)
NewCountry(name, lastUpdatedBySourceAt) ==
    [name |-> name, confirmed |-> 0, deaths |-> 0, active |-> 0,
     recovered |-> 0, lastUpdatedBySourceAt |-> lastUpdatedBySourceAt]

incrementDeaths(country, n) == [country EXCEPT !.deaths = @ + n]

incrementConfirmed(country, n) == [country EXCEPT !.confirmed = @ + n]

incrementActive(country, n) == [country EXCEPT !.active = @ + n]

incrementRecovered(country, n) == [country EXCEPT !.recovered = @ + n]

(***************************************************************************)
(* this.countryObjects, an object used as a map from name to Country.      *)
(***************************************************************************)
Range(s) == {s[k] : k \in 1..Len(s)}

HasKey(objs, name) == \E k \in 1..Len(objs) : objs[k].name = name

IndexOf(objs, name) == CHOOSE k \in 1..Len(objs) : objs[k].name = name

\* objs[name]
Get(objs, name) == objs[IndexOf(objs, name)]

\* objs[country.getName()] = country
Put(objs, country) ==
    IF HasKey(objs, country.name)
    THEN [objs EXCEPT ![IndexOf(objs, country.name)] = country]
    ELSE Append(objs, country)

\* [...new Set(countryNames)]: the first occurrence of each name, in order
RECURSIVE SetOrder(_)
SetOrder(names) ==
    IF names = <<>> THEN <<>>
    ELSE LET front == SetOrder(SubSeq(names, 1, Len(names) - 1))
             last == names[Len(names)]
         IN  IF last \in Range(front) THEN front ELSE Append(front, last)

getCountryNamesArray(rows) ==
    SetOrder([k \in 1..Len(rows) |-> rows[k][COL_COUNTRY]] \o <<WORLDWIDE>>)

\* Moment(dateString) read as local wall-clock fields, handed to Date.UTC,
\* which takes no milliseconds; month() counts from 0, as Date.UTC does.
getLastUpdatedBySourceTime(rows) ==
    LET date_moment == rows[1][COL_LAST_UPDATE]
        month0 == date_moment.month - 1
    IN  [year |-> date_moment.year, month |-> month0 + 1,
         date |-> date_moment.date, hours |-> date_moment.hours,
         minute |-> date_moment.minute, second |-> date_moment.second,
         millisecond |-> 0]

RECURSIVE PutAll(_, _, _)
PutAll(objs, names, time) ==
    IF names = <<>> THEN objs
    ELSE PutAll(Put(objs, NewCountry(Head(names), time)), Tail(names), time)

(***************************************************************************)
(* The inputs: the days the clock may show when init is called, the texts  *)
(* of a count field, the rows of a snapshot.                               *)
(***************************************************************************)
StartDays == {425}    \* 2020-03-01: 90 days back cross a leap day and a year

Chars == {"-", "+", " ", "0", "1", "2", "a", "x", "."}

Fields == UNION {[1..n -> Chars] : n \in 0..MaxLen} \cup {undefined}

SourceTime ==
    [year |-> 2021, month |-> 1, date |-> 1, hours |-> 4, minute |-> 0,
     second |-> 0, millisecond |-> 250]

Counts(deaths, confirmed, active, recovered) ==
    COL_DEATHS :> deaths @@ COL_CONFIRMED :> confirmed @@ COL_ACTIVE :> active
        @@ COL_RECOVERED :> recovered @@ COL_LAST_UPDATE :> SourceTime

\* the field texts of three rows: 5,100,45,-50 and 2,abc,18,10 and a row
\* with no Deaths column, 12abc, an empty text and 0
FieldTuples ==
    { Counts(<<"5">>, <<"1", "0", "0">>, <<"4", "5">>, <<"-", "5", "0">>),
      Counts(<<"2">>, <<"a", "b", "c">>, <<"1", "8">>, <<"1", "0">>),
      COL_CONFIRMED :> <<"1", "2", "a", "b", "c">> @@ COL_ACTIVE :> <<>>
          @@ COL_RECOVERED :> <<"0">> @@ COL_LAST_UPDATE :> SourceTime }

RowsOf(names) == {COL_COUNTRY :> n @@ t : n \in names, t \in FieldTuples}

SeqsUpTo(S, n) == UNION {[1..k -> S] : k \in 0..n}

AggSeqs == SeqsUpTo(RowsOf({"US", "Italy", WORLDWIDE}), MaxRows)

PipeRows ==
    { COL_COUNTRY :> "US" @@
          Counts(<<"5">>, <<"1", "0", "0">>, <<"4", "5">>, <<"-", "5", "0">>),
      COL_COUNTRY :> "Italy" @@
          Counts(<<"2">>, <<"a", "b", "c">>, <<"1", "8">>, <<"1", "0">>) }

PipeSeqs == SeqsUpTo(PipeRows, MaxPipeRows)

\* what an earlier process run left in the collection
PreviousRecords == <<NewCountry("Atlantis", SourceTime)>>

NoFiles == [n \in {} |-> "empty"]

Unlink(files, name) == [n \in DOMAIN files \ {name} |-> files[n]]

NoCounts == [deaths |-> 0, confirmed |-> 0, active |-> 0, recovered |-> 0]

(***************************************************************************)
(* The state after new App(), in an environment where the data directory   *)
(* may or may not exist and may hold yesterday's file of an earlier run.   *)
(***************************************************************************)
Init ==
    /\ pc = "idle"
    /\ run = 1
    /\ clock \in StartDays
    /\ ticks = 0
    /\ \E d \in {"none", "empty", "yesterday"} :
          /\ dataDir = (d # "none")
          /\ staging = IF d = "yesterday"
                       THEN FormatDate(clock - 1) :> "complete"
                       ELSE NoFiles
    /\ i = 0
    /\ csvFileName = <<>>
    /\ dlResult = "none"
    /\ probes = <<>>
    /\ failedNames = {}
    /\ csvRows = <<>>
    /\ countryObjects = <<>>
    /\ totalDeaths = 0
    /\ totalActive = 0
    /\ totalRecovered = 0
    /\ totalConfirmed = 0
    /\ rowIdx = 0
    /\ lastAdded = NoCounts
    /\ values = <<>>
    /\ insertIdx = 0
    /\ dbOpen = FALSE
    /\ dbStore = PreviousRecords
    /\ dbLog = <<>>
    /\ error = ""
    /\ argField = undefined
    /\ retValue = 0

appVars == <<csvRows, countryObjects, totalDeaths, totalActive,
             totalRecovered, totalConfirmed, rowIdx, lastAdded>>

dbVars == <<values, insertIdx, dbOpen, dbStore, dbLog>>

dlVars == <<dataDir, staging, i, csvFileName, dlResult, probes, failedNames>>

callVars == <<argField, retValue>>

(***************************************************************************)
(* init and downloadCsvFile                                                *)
(***************************************************************************)
init_call ==
    /\ pc = "idle"
    /\ pc' = "dl_enter"
    /\ UNCHANGED <<run, clock, ticks, dlVars, appVars, dbVars, error, callVars>>

dl_enter ==
    /\ pc = "dl_enter"
    /\ dataDir' = TRUE
    /\ i' = 0
    /\ pc' = "dl_loop"
    /\ UNCHANGED <<run, clock, ticks, staging, csvFileName, dlResult, probes,
                   failedNames, appVars, dbVars, error, callVars>>

\* The clock passes midnight between two readings of it.  An attempt lasts
\* less than a day: at most one midnight passes between two readings.
Tick ==
    /\ pc = "dl_loop"
    /\ ticks < MaxTicks
    /\ IF probes = <<>> THEN ticks = 0 ELSE probes[Len(probes)].at = clock
    /\ clock' = clock + 1
    /\ ticks' = ticks + 1
    /\ UNCHANGED <<pc, run, dlVars, appVars, dbVars, error,
                   callVars>>

\* a plausible bug: the loop counts from 1, so today's file is never tried
dl_attempt_from_one ==
    /\ pc = "dl_loop"
    /\ i < tries
    /\ csvFileName' = FormatDate(SubtractDays(clock, i + 1))
    /\ staging' = (csvFileName' :> "empty") @@ staging
    /\ probes' = Append(probes, [at |-> clock, back |-> i,
                                 name |-> csvFileName'])
    /\ pc' = "dl_request"
    /\ UNCHANGED <<run, clock, ticks, dataDir, i, dlResult, failedNames,
                   appVars, dbVars, error, callVars>>

\* one pass of the loop up to the request: the file name of the day i days
\* before today, and download's createWriteStream, which creates the file
dl_attempt ==
    /\ pc = "dl_loop"
    /\ i < tries
    /\ csvFileName' = FormatDate(SubtractDays(clock, i))
    /\ staging' = (csvFileName' :> "empty") @@ staging
    /\ probes' = Append(probes, [at |-> clock, back |-> i,
                                 name |-> csvFileName'])
    /\ pc' = "dl_request"
    /\ UNCHANGED <<run, clock, ticks, dataDir, i, dlResult, failedNames,
                   appVars, dbVars, error, callVars>>

\* the request is answered: the body is piped to the file
axios_resolve ==
    /\ pc = "dl_request"
    /\ staging' = [staging EXCEPT ![csvFileName] = "partial"]
    /\ pc' = "dl_pipe"
    /\ UNCHANGED <<run, clock, ticks, dataDir, i, csvFileName, dlResult,
                   probes, failedNames, appVars, dbVars, error,
                   callVars>>

\* a network error or a status that is no success: the await throws
axios_reject ==
    /\ pc = "dl_request"
    /\ pc' = "dl_catch"
    /\ UNCHANGED <<run, clock, ticks, dlVars, appVars, dbVars, error, callVars>>

\* the writer's 'finish': download resolves and downloadCsvFile returns
writer_finish ==
    /\ pc = "dl_pipe"
    /\ staging' = [staging EXCEPT ![csvFileName] = "complete"]
    /\ dlResult' = "completed"
    /\ pc' = "dl_returned"
    /\ UNCHANGED <<run, clock, ticks, dataDir, i, csvFileName, probes,
                   failedNames, appVars, dbVars, error, callVars>>

\* the writer's 'error' after a partial write: download rejects
writer_error ==
    /\ pc = "dl_pipe"
    /\ pc' = "dl_catch"
    /\ UNCHANGED <<run, clock, ticks, dlVars, appVars, dbVars, error, callVars>>

\* a plausible bug: the catch block leaves the file where it is
catch_keep ==
    /\ pc = "dl_catch"
    /\ failedNames' = failedNames \cup {csvFileName}
    /\ i' = i + 1
    /\ pc' = "dl_loop"
    /\ UNCHANGED <<run, clock, ticks, dataDir, staging, csvFileName, dlResult,
                   probes, appVars, dbVars, error, callVars>>

\* the catch block: the attempt's file is deleted, the loop goes on
catch_unlink ==
    /\ pc = "dl_catch"
    /\ staging' = Unlink(staging, csvFileName)
    /\ failedNames' = failedNames \cup {csvFileName}
    /\ i' = i + 1
    /\ pc' = "dl_loop"
    /\ UNCHANGED <<run, clock, ticks, dataDir, csvFileName, dlResult, probes,
                   appVars, dbVars, error, callVars>>

\* the loop ends without a download: a message is logged and the function
\* returns as it does after a download
dl_exhausted ==
    /\ pc = "dl_loop"
    /\ i >= tries
    /\ dlResult' = "exhausted"
    /\ pc' = "dl_returned"
    /\ UNCHANGED <<run, clock, ticks, dataDir, staging, i, csvFileName, probes,
                   failedNames, appVars, dbVars, error, callVars>>

Locate ==
    \/ init_call
    \/ dl_enter
    \/ Tick
    \/ dl_attempt
    \/ axios_resolve
    \/ axios_reject
    \/ writer_finish
    \/ writer_error
    \/ catch_unlink
    \/ dl_exhausted

SpecLocate == Init /\ [][Locate]_vars

(***************************************************************************)
(* setRowsData, createCountryObjects, populateCountryObjects               *)
(***************************************************************************)
\* CsvToJson().fromFile reads the rows of the file named this.csvFileName
setRowsData(Snapshots) ==
    /\ pc = "dl_returned"
    /\ csvFileName \in DOMAIN staging
    /\ \E rows \in Snapshots : csvRows' = rows
    /\ pc' = "create"
    /\ UNCHANGED <<run, clock, ticks, dlVars, countryObjects, totalDeaths,
                   totalActive, totalRecovered, totalConfirmed, rowIdx,
                   lastAdded, dbVars, error, callVars>>

\* a plausible bug: a file that is not there reads as no rows, init goes on
setRowsData_goes_on ==
    /\ pc = "dl_returned"
    /\ csvFileName \notin DOMAIN staging
    /\ pc' = "create"
    /\ UNCHANGED <<run, clock, ticks, dlVars, appVars, dbVars, error,
                   callVars>>

\* fromFile rejects when there is no such file, and init with it
setRowsData_reject ==
    /\ pc = "dl_returned"
    /\ csvFileName \notin DOMAIN staging
    /\ error' = "File does not exist"
    /\ pc' = "failed"
    /\ UNCHANGED <<run, clock, ticks, dlVars, appVars, dbVars,
                   callVars>>

\* a plausible bug: no rows give a "Worldwide" object without a time
createCountryObjectsOfNoRows ==
    /\ pc = "create"
    /\ countryObjects' =
          PutAll(countryObjects, getCountryNamesArray(csvRows),
                 IF csvRows = <<>> THEN undefined
                 ELSE getLastUpdatedBySourceTime(csvRows))
    /\ rowIdx' = 1
    /\ pc' = "populate"
    /\ UNCHANGED <<run, clock, ticks, dlVars, csvRows, totalDeaths,
                   totalActive, totalRecovered, totalConfirmed, lastAdded,
                   dbVars, error, callVars>>

\* getLastUpdatedBySourceTime reads this.csvRows[0][...], a TypeError when
\* there is no row; otherwise every name gets a new Country
createCountryObjects ==
    /\ pc = "create"
    /\ IF csvRows = <<>>
       THEN /\ error' = "TypeError"
            /\ pc' = "failed"
            /\ UNCHANGED <<countryObjects, rowIdx>>
       ELSE /\ countryObjects' =
                  PutAll(countryObjects, getCountryNamesArray(csvRows),
                         getLastUpdatedBySourceTime(csvRows))
            /\ rowIdx' = 1
            /\ pc' = "populate"
            /\ UNCHANGED error
    /\ UNCHANGED <<run, clock, ticks, dlVars, csvRows, totalDeaths,
                   totalActive, totalRecovered, totalConfirmed, lastAdded,
                   dbVars, callVars>>

\* one step of the forEach: the row's four counts are added to the totals
\* and to the row's country
populate_row ==
    /\ pc = "populate"
    /\ rowIdx <= Len(csvRows)
    /\ LET row == csvRows[rowIdx]
           countryName == row[COL_COUNTRY]
           deaths == getCaseCount(row, COL_DEATHS)
           confirmed == getCaseCount(row, COL_CONFIRMED)
           active == getCaseCount(row, COL_ACTIVE)
           recovered == getCaseCount(row, COL_RECOVERED)
           country == Get(countryObjects, countryName)
       IN  /\ totalDeaths' = totalDeaths + deaths
           /\ totalConfirmed' = totalConfirmed + confirmed
           /\ totalActive' = totalActive + active
           /\ totalRecovered' = totalRecovered + recovered
           /\ countryObjects' =
                 Put(countryObjects,
                     incrementRecovered(incrementActive(incrementConfirmed(
                         incrementDeaths(country, deaths), confirmed),
                         active), recovered))
           /\ lastAdded' = [deaths |-> deaths, confirmed |-> confirmed,
                            active |-> active, recovered |-> recovered]
    /\ rowIdx' = rowIdx + 1
    /\ UNCHANGED <<pc, run, clock, ticks, dlVars, csvRows, dbVars, error, callVars>>

\* after the forEach: the totals are added to the "Worldwide" object
populate_worldwide ==
    /\ pc = "populate"
    /\ rowIdx > Len(csvRows)
    /\ LET country_worldwide == Get(countryObjects, WORLDWIDE)
       IN  countryObjects' =
              Put(countryObjects,
                  incrementRecovered(incrementActive(incrementConfirmed(
                      incrementDeaths(country_worldwide, totalDeaths),
                      totalConfirmed), totalActive), totalRecovered))
    /\ pc' = "save"
    /\ UNCHANGED <<run, clock, ticks, dlVars, csvRows, totalDeaths,
                   totalActive, totalRecovered, totalConfirmed, rowIdx,
                   lastAdded, dbVars, error, callVars>>

(***************************************************************************)
(* saveDataToDb, on a MongoDatabase (mongodb.js): connect, dropCollection, *)
(* insert, close.                                                          *)
(***************************************************************************)
\* MongoDatabase.dropCollection: the collection's records are gone
dropCollection(store) == <<>>

\* MongoDatabase.insert: one more record
insert(store, record) == Append(store, record)

db_connect ==
    /\ pc = "save"
    /\ dbOpen' = TRUE
    /\ dbLog' = Append(dbLog, "connect")
    /\ pc' = "db_drop"
    /\ UNCHANGED <<run, clock, ticks, dlVars, appVars, values, insertIdx,
                   dbStore, error, callVars>>

\* a plausible bug: the collection is not dropped before the inserts
db_keepCollection ==
    /\ pc = "db_drop"
    /\ dbLog' = Append(dbLog, "dropCollection")
    /\ values' = countryObjects
    /\ insertIdx' = 1
    /\ pc' = "db_insert"
    /\ UNCHANGED <<run, clock, ticks, dlVars, appVars, dbOpen, dbStore, error, callVars>>

\* dropCollection, then const values = Object.values(this.countryObjects)
db_dropCollection ==
    /\ pc = "db_drop"
    /\ dbStore' = dropCollection(dbStore)
    /\ dbLog' = Append(dbLog, "dropCollection")
    /\ values' = countryObjects
    /\ insertIdx' = 1
    /\ pc' = "db_insert"
    /\ UNCHANGED <<run, clock, ticks, dlVars, appVars, dbOpen, error, callVars>>

db_insert ==
    /\ pc = "db_insert"
    /\ insertIdx <= Len(values)
    /\ dbStore' = insert(dbStore, values[insertIdx])
    /\ dbLog' = Append(dbLog, "insert")
    /\ insertIdx' = insertIdx + 1
    /\ UNCHANGED <<pc, run, clock, ticks, dlVars, appVars, values, dbOpen,
                   error, callVars>>

db_close ==
    /\ pc = "db_insert"
    /\ insertIdx > Len(values)
    /\ dbOpen' = FALSE
    /\ dbLog' = Append(dbLog, "close")
    /\ pc' = "finished"
    /\ UNCHANGED <<run, clock, ticks, dlVars, appVars, values, insertIdx,
                   dbStore, error, callVars>>

\* an awaited database operation rejects, and init with it
db_reject ==
    /\ pc \in {"save", "db_drop", "db_insert"}
    /\ error' = "PersistenceError"
    /\ pc' = "failed"
    /\ UNCHANGED <<run, clock, ticks, dlVars, appVars, dbVars,
                   callVars>>

\* init is called again on the same App, after it finished or failed
init_again ==
    /\ pc \in {"finished", "failed"}
    /\ run < MaxRuns
    /\ run' = run + 1
    /\ probes' = <<>>
    /\ failedNames' = {}
    /\ dlResult' = "none"
    /\ dbLog' = <<>>
    /\ error' = ""
    /\ pc' = "dl_enter"
    /\ UNCHANGED <<clock, ticks, dataDir, staging, i, csvFileName, appVars,
                   values, insertIdx, dbOpen, dbStore, callVars>>

(***************************************************************************)
(* getCaseCount called alone, on a row with one count field.               *)
(***************************************************************************)
RowWith(field) ==
    IF field = undefined THEN COL_COUNTRY :> "US"
    ELSE COL_COUNTRY :> "US" @@ COL_DEATHS :> field

getCaseCount_call ==
    /\ pc = "gcc_call"
    /\ retValue' = getCaseCount(RowWith(argField), COL_DEATHS)
    /\ pc' = "gcc_return"
    /\ UNCHANGED <<run, clock, ticks, dlVars, appVars, dbVars, error, argField>>

InitParse ==
    /\ pc = "gcc_call"
    /\ argField \in Fields
    /\ retValue = 0
    /\ run = 1 /\ clock \in StartDays /\ ticks = 0
    /\ dataDir = FALSE /\ staging = NoFiles /\ i = 0 /\ csvFileName = <<>>
    /\ dlResult = "none" /\ probes = <<>> /\ failedNames = {}
    /\ csvRows = <<>> /\ countryObjects = <<>>
    /\ totalDeaths = 0 /\ totalActive = 0 /\ totalRecovered = 0
    /\ totalConfirmed = 0 /\ rowIdx = 0 /\ lastAdded = NoCounts
    /\ values = <<>> /\ insertIdx = 0 /\ dbOpen = FALSE
    /\ dbStore = PreviousRecords /\ dbLog = <<>> /\ error = ""

(***************************************************************************)
(* Specifications.  Spec: one call of init on a new App, any attempt may   *)
(* fail.  SpecLocate: its downloadCsvFile, midnight may pass.              *)
(* SpecAggregate: init up to saveDataToDb with a remote source that        *)
(* answers the first request, over more snapshots.  SpecRerun: init called *)
(* again on the same App, the remote source answering the first request.   *)
(* SpecParse: getCaseCount on every text up to MaxLen characters.          *)
(***************************************************************************)
Next ==
    \/ init_call
    \/ dl_enter
    \/ dl_attempt
    \/ axios_resolve
    \/ axios_reject
    \/ writer_finish
    \/ writer_error
    \/ catch_unlink
    \/ dl_exhausted
    \/ setRowsData(PipeSeqs)
    \/ setRowsData_reject
    \/ createCountryObjects
    \/ populate_row
    \/ populate_worldwide
    \/ db_connect
    \/ db_dropCollection
    \/ db_insert
    \/ db_close
    \/ db_reject

Spec == Init /\ [][Next]_vars

Aggregate ==
    \/ init_call
    \/ dl_enter
    \/ dl_attempt
    \/ axios_resolve
    \/ writer_finish
    \/ setRowsData(AggSeqs)
    \/ createCountryObjects
    \/ populate_row
    \/ populate_worldwide

SpecAggregate == Init /\ [][Aggregate]_vars

Rerun ==
    \/ init_call
    \/ dl_enter
    \/ dl_attempt
    \/ axios_resolve
    \/ writer_finish
    \/ setRowsData(PipeSeqs)
    \/ createCountryObjects
    \/ populate_row
    \/ populate_worldwide
    \/ db_connect
    \/ db_dropCollection
    \/ db_insert
    \/ db_close
    \/ init_again

SpecRerun == Init /\ [][Rerun]_vars

SpecParse == InitParse /\ [][getCaseCount_call]_vars

(***************************************************************************)
(* Definitions the properties below are stated with.                       *)
(***************************************************************************)
CountFields == {"deaths", "confirmed", "active", "recovered"}

\* the sum of counter f over the objects that are not "Worldwide"
RECURSIVE SumOfCountries(_, _)
SumOfCountries(objs, f) ==
    IF objs = <<>> THEN 0
    ELSE (IF Head(objs).name = WORLDWIDE THEN 0 ELSE Head(objs)[f])
         + SumOfCountries(Tail(objs), f)

\* date a is not later than date b, both <<MM, DD, YYYY>>
NotLater(a, b) ==
    \/ a[3] < b[3]
    \/ a[3] = b[3] /\ a[1] < b[1]
    \/ a[3] = b[3] /\ a[1] = b[1] /\ a[2] <= b[2]

\* the value of the radix-R digits text[from..to]
RECURSIVE ValueOf(_, _, _, _)
ValueOf(text, from, to, R) ==
    IF to < from THEN 0
    ELSE ValueOf(text, from, to - 1, R) * R + DigitVal(text[to])

\* The values of the leading integers of a text: after p spaces and an
\* optional sign (s = 1), and a 0x or 0X (h = 2) whenever one is there, a
\* run of n >= 1 digits of radix 10 (16 after 0x) that no digit follows.
LeadingIntegers(text) ==
    IF text = undefined THEN {}
    ELSE
    { ValueOf(text, c[1] + c[2] + c[3] + 1, c[1] + c[2] + c[3] + c[4],
              IF c[3] = 2 THEN 16 ELSE 10) :
        c \in { d \in (0..Len(text)) \X {0, 1} \X {0, 2} \X (1..Len(text)) :
            LET p == d[1]
                s == d[2]
                h == d[3]
                n == d[4]
                R == IF h = 2 THEN 16 ELSE 10
                first == p + s + h + 1
                last == p + s + h + n
                isHex == /\ p + s + 2 <= Len(text)
                         /\ text[p + s + 1] = "0"
                         /\ text[p + s + 2] \in {"x", "X"}
            IN  /\ last <= Len(text)
                /\ \A k \in 1..p : text[k] = " "
                /\ text[p + 1] # " "
                /\ (s = 1) <=> (text[p + 1] \in {"+", "-"})
                /\ (h = 2) <=> isHex
                /\ \A k \in first..last : DigitVal(text[k]) < R
                /\ last < Len(text) => ~(DigitVal(text[last + 1]) < R) } }

AllDigits(text) ==
    text # <<>> /\ \A k \in 1..Len(text) : DigitVal(text[k]) < 10

\* the text without the spaces around it
RECURSIVE Trim(_)
Trim(text) ==
    IF text # <<>> /\ Head(text) = " " THEN Trim(Tail(text))
    ELSE IF text # <<>> /\ text[Len(text)] = " "
         THEN Trim(SubSeq(text, 1, Len(text) - 1))
         ELSE text

\* The text is a number as JavaScript's Number() reads one: spaces around
\* an optionally signed decimal literal, with or without a fraction, or
\* around a hexadecimal literal.
IsNumeric(field) ==
    /\ field # undefined
    /\ LET t == Trim(field)
           u == IF t # <<>> /\ Head(t) \in {"+", "-"} THEN Tail(t) ELSE t
           dots == {k \in 1..Len(u) : u[k] = "."}
       IN  \/ /\ Cardinality(dots) <= 1
              /\ \E k \in 1..Len(u) : DigitVal(u[k]) < 10
              /\ \A k \in 1..Len(u) : DigitVal(u[k]) < 10 \/ u[k] = "."
           \/ /\ Len(t) >= 3
              /\ t[1] = "0"
              /\ t[2] \in {"x", "X"}
              /\ \A k \in 3..Len(t) : DigitVal(t[k]) < 16

\* what createCountryObjects and populateCountryObjects make of the rows
\* on a new App
RECURSIVE AddRows(_, _)
AddRows(objs, rows) ==
    IF rows = <<>> THEN objs
    ELSE LET row == Head(rows)
             c == Get(objs, row[COL_COUNTRY])
         IN  AddRows(Put(objs, [c EXCEPT
                 !.deaths = @ + getCaseCount(row, COL_DEATHS),
                 !.confirmed = @ + getCaseCount(row, COL_CONFIRMED),
                 !.active = @ + getCaseCount(row, COL_ACTIVE),
                 !.recovered = @ + getCaseCount(row, COL_RECOVERED)]),
                 Tail(rows))

RECURSIVE TotalOf(_, _)
TotalOf(rows, columnName) ==
    IF rows = <<>> THEN 0
    ELSE getCaseCount(Head(rows), columnName) + TotalOf(Tail(rows), columnName)

OnNewApp(rows) ==
    LET objs == AddRows(PutAll(<<>>, getCountryNamesArray(rows),
                               getLastUpdatedBySourceTime(rows)), rows)
        w == Get(objs, WORLDWIDE)
    IN  Put(objs, [w EXCEPT
            !.deaths = @ + TotalOf(rows, COL_DEATHS),
            !.confirmed = @ + TotalOf(rows, COL_CONFIRMED),
            !.active = @ + TotalOf(rows, COL_ACTIVE),
            !.recovered = @ + TotalOf(rows, COL_RECOVERED)])

InitPattern(n) == <<"connect", "dropCollection">> \o [k \in 1..n |-> "insert"]

IsPrefix(s, t) == Len(s) <= Len(t) /\ \A k \in 1..Len(s) : s[k] = t[k]

Aggregated ==
    /\ dlResult = "completed"
    /\ csvFileName \in DOMAIN staging
    /\ staging[csvFileName] = "complete"
    /\ csvRows # <<>>
    /\ rowIdx = Len(csvRows) + 1
    /\ \A k \in 1..Len(csvRows) : HasKey(countryObjects, csvRows[k][COL_COUNTRY])
    /\ HasKey(countryObjects, WORLDWIDE)

(***************************************************************************)
(* C1.  After populateCountryObjects on a new App, each of the four        *)
(* counters of "Worldwide" equals the sum of that counter over the other   *)
(* objects of countryObjects, also when a row names "Worldwide" itself.    *)
(***************************************************************************)
C1_WorldwideIsSumOfCountries ==
    (run = 1 /\ pc = "save") =>
        \A f \in CountFields :
            Get(countryObjects, WORLDWIDE)[f] = SumOfCountries(countryObjects, f)

(***************************************************************************)
(* C2.  downloadCsvFile makes one attempt at a time, the first for the     *)
(* clock's day, the k-th for the day k-1 days before the day the clock     *)
(* shows then, never for a later date than the attempt before (an attempt  *)
(* lasting less than a day); when the                                      *)
(* k-th attempt is the first to succeed it returns after exactly k         *)
(* attempts, all earlier ones failed, with csvFileName that attempt's name *)
(* and its file complete, and makes no further attempt.                    *)
(***************************************************************************)
C2_LatestAttempt ==
    /\ pc \in {"dl_enter", "dl_loop"} => Len(probes) = i
    /\ pc \in {"dl_request", "dl_pipe", "dl_catch"} => Len(probes) = i + 1
    /\ probes # <<>> =>
          LET k == Len(probes)
          IN  /\ probes[k].back = k - 1
              /\ probes[k].name = FormatDate(probes[k].at - (k - 1))
              /\ k = 1 => probes[k].name = FormatDate(probes[k].at)
              /\ k > 1 => NotLater(probes[k].name, probes[k - 1].name)
    /\ (pc = "dl_returned" /\ dlResult = "completed") =>
          /\ Len(probes) = i + 1
          /\ csvFileName = probes[Len(probes)].name
          /\ csvFileName \in DOMAIN staging
          /\ staging[csvFileName] = "complete"
          /\ failedNames = {probes[k].name : k \in 1..(Len(probes) - 1)}

\* attempts are made one at a time, at the head of the loop, and stay on
\* record; after a success none is made
C2_OneAtATime ==
    /\ \/ probes' = probes
       \/ /\ pc = "dl_loop"
          /\ dlResult = "none"
          /\ Len(probes') = Len(probes) + 1
          /\ SubSeq(probes', 1, Len(probes)) = probes
    /\ dlResult = "completed" => (probes' = probes /\ dlResult' = dlResult)

C3_ExhaustionIsAnError ==
    dlResult = "exhausted" =>
        /\ Len(probes) = tries
        /\ pc = "failed"
        /\ error = "NotFoundError"

(***************************************************************************)
(* C4.  The stages of init happen in the order locate, parse, aggregate,   *)
(* persist: rows are read only from a completed download, objects are      *)
(* built only from rows read, and no database operation happens unless the *)
(* download, setRowsData, createCountryObjects and populateCountryObjects  *)
(* all completed; after the attempts are exhausted no row is read, no      *)
(* object is built and the database is not touched.                        *)
(***************************************************************************)
C4_StagesInOrder ==
    /\ pc \in {"create", "populate", "save"} => dlResult = "completed"
    /\ csvRows # <<>> => dlResult = "completed"
    /\ countryObjects # <<>> => csvRows # <<>>
    /\ pc = "save" => Aggregated
    /\ (dbLog # <<>> \/ dbOpen \/ dbStore # PreviousRecords
            \/ pc \in {"db_drop", "db_insert", "finished"}) => Aggregated
    /\ dlResult = "exhausted" =>
          /\ pc \in {"dl_returned", "failed"}
          /\ csvRows = <<>>
          /\ countryObjects = <<>>
          /\ dbLog = <<>>
          /\ ~dbOpen
          /\ dbStore = PreviousRecords

C4_AbortedAfterExhaustion ==
    /\ dlResult = "exhausted"
    /\ pc = "failed"
    /\ Len(probes) = tries

(***************************************************************************)
(* C5.  When the snapshot read has no rows, aggregation fails: no object   *)
(* (no all-zero "Worldwide") is built and init ends with an error before   *)
(* any database operation.                                                 *)
(***************************************************************************)
C5_NoRowsIsAFailure ==
    (dlResult = "completed" /\ csvRows = <<>>
        /\ pc \notin {"dl_returned", "create"}) =>
        /\ pc = "failed"
        /\ error = "TypeError"
        /\ countryObjects = <<>>
        /\ dbLog = <<>>
        /\ ~dbOpen
        /\ dbStore = PreviousRecords

C5_FailedOnNoRows ==
    /\ dlResult = "completed"
    /\ csvRows = <<>>
    /\ pc = "failed"

(***************************************************************************)
(* C6, as claimed.  getCaseCount returns the field's value when the field  *)
(* is a non-negative integer, the absolute value when it is a negative     *)
(* integer, and 0 whenever the field is missing or is not a number.        *)
(***************************************************************************)
C6_NotANumberGivesZero ==
    pc = "gcc_return" =>
        /\ (argField # undefined /\ AllDigits(argField)) =>
              retValue = ValueOf(argField, 1, Len(argField), 10)
        /\ (argField # undefined /\ argField # <<>> /\ Head(argField) = "-"
                /\ AllDigits(Tail(argField))) =>
              retValue = ValueOf(argField, 2, Len(argField), 10)
        /\ ~IsNumeric(argField) => retValue = 0

(***************************************************************************)
(* C6, amended.  getCaseCount returns the absolute value of the field's    *)
(* leading integer: after leading spaces and an optional sign, the longest *)
(* run of decimal digits (of hexadecimal digits after 0x), whatever        *)
(* follows it; and 0 exactly when the field is missing or has no such      *)
(* leading integer.  So 12, -12 and 12a give 12, and a and "" give 0.      *)
(***************************************************************************)
C6_LeadingIntegerCounts ==
    pc = "gcc_return" =>
        /\ LeadingIntegers(argField) = {} => retValue = 0
        /\ LeadingIntegers(argField) # {} =>
              LeadingIntegers(argField) = {retValue}
        /\ (argField # undefined /\ AllDigits(argField)) =>
              retValue = ValueOf(argField, 1, Len(argField), 10)
        /\ (argField # undefined /\ argField # <<>> /\ Head(argField) = "-"
                /\ AllDigits(Tail(argField))) =>
              retValue = ValueOf(argField, 2, Len(argField), 10)

C6_TrailingTextIgnored ==
    /\ pc = "gcc_return"
    /\ argField = <<"1", "2", "a">>
    /\ retValue = 12

(***************************************************************************)
(* C7.  A failed attempt is handled in downloadCsvFile: its file is        *)
(* deleted and the loop goes on with the next day.  Whenever an attempt is *)
(* about to start, and when the loop ends with every attempt failed, the   *)
(* data directory holds no file of a failed attempt, every attempt made so *)
(* far has failed, and no error has ended the loop.                        *)
(***************************************************************************)
C7_NoFileOfAFailedAttempt ==
    /\ (pc = "dl_loop" \/ dlResult = "exhausted") =>
          /\ DOMAIN staging \cap failedNames = {}
          /\ i = Len(probes)
          /\ probes # <<>> => probes[Len(probes)].name \in failedNames
    /\ dlResult = "exhausted" => Len(probes) = tries
    /\ pc # "failed"
    /\ error = ""

\* a rejected download is followed by the deletion of the attempt's file
\* and the next pass of the loop, and by nothing else
C7_FailureIsHandled ==
    /\ failedNames \subseteq failedNames'
    /\ pc = "dl_catch" =>
          /\ pc' = "dl_loop"
          /\ i' = i + 1
          /\ csvFileName \notin DOMAIN staging'
          /\ failedNames' = failedNames \cup {csvFileName}
    /\ (pc \in {"dl_request", "dl_pipe"} /\ pc' \notin {"dl_request", "dl_pipe"}) =>
          pc' \in {"dl_catch", "dl_returned"}

C8_DropThenInsertEach ==
    /\ IsPrefix(dbLog, InitPattern(Len(countryObjects)) \o <<"close">>)
    /\ dbLog # <<>> => Aggregated
    /\ pc = "db_insert" =>
          /\ values = countryObjects
          /\ dbLog = InitPattern(insertIdx - 1)
          /\ dbStore = SubSeq(values, 1, insertIdx - 1)
    /\ pc = "finished" =>
          /\ dbLog = InitPattern(Len(countryObjects)) \o <<"close">>
          /\ dbStore = countryObjects
          /\ \A r \in Range(PreviousRecords) : r \notin Range(dbStore)
          /\ ~dbOpen

C8_Saved ==
    /\ pc = "finished"
    /\ Len(dbStore) = 3
    /\ Len(dbLog) = 6

(***************************************************************************)
(* C9.  During aggregation every counter of every object and the four      *)
(* totals are >= 0, and a step of aggregation changes a counter only by    *)
(* adding an amount >= 0: no counter decreases.                            *)
(***************************************************************************)
C9_CountersNonNegative ==
    /\ \A k \in 1..Len(countryObjects) : \A f \in CountFields :
          countryObjects[k][f] >= 0
    /\ totalDeaths >= 0
    /\ totalActive >= 0
    /\ totalRecovered >= 0
    /\ totalConfirmed >= 0
    /\ \A f \in CountFields : lastAdded[f] >= 0

C9_StepOnlyAdds ==
    pc = "populate" =>
        /\ Len(countryObjects') = Len(countryObjects)
        /\ \A k \in 1..Len(countryObjects) : \A f \in CountFields :
              /\ countryObjects'[k].name = countryObjects[k].name
              /\ countryObjects'[k][f] >= countryObjects[k][f]
        /\ totalDeaths' >= totalDeaths
        /\ totalActive' >= totalActive
        /\ totalRecovered' >= totalRecovered
        /\ totalConfirmed' >= totalConfirmed

C9_NeverNegativeNeverDecreasing ==
    []C9_CountersNonNegative /\ [][C9_StepOnlyAdds]_vars

C9_NegativeFieldAdded ==
    /\ pc = "populate"
    /\ rowIdx = 3
    /\ lastAdded.recovered = 50
    /\ HasKey(countryObjects, "US")
    /\ Get(countryObjects, "US").recovered = 100

(***************************************************************************)
(* C10.  When init is called a second time on the same App, what the       *)
(* second call stores is what a new App would store for the rows the       *)
(* second call read: nothing of the first call's counts, totals or         *)
(* countries is in it.                                                     *)
(***************************************************************************)
C10_SecondRunStartsAfresh ==
    (run = 2 /\ pc = "finished") => dbStore = OnNewApp(csvRows)

=============================================================================
